---- MODULE Spec2Model ----
(***************************************************************************)
(* Luna Social: the hybrid venue-recommendation and social-compatibility   *)
(* engine (src/backend.py, class RecommendationEngine) over the SQLite     *)
(* store (class LunaDatabase), and the compatibility score of the Flask    *)
(* engine (src/backend/models.py); the group chat analysis of the agent    *)
(* (src/luna_agent.py); recommend_people and the booking agent of the      *)
(* Flask backend (src/backend/models.py, agents.py, database.py).          *)
(*                                                                         *)
(* Real numbers are fixed-point integers: the real x is the integer        *)
(* x * Scale.  Scale is a multiple of every denominator the inputs below   *)
(* can produce, so the sums and products of the code are exact here.       *)
(* Python floats round; the model does not, a tie in the model may be a    *)
(* difference of one ulp in the program.                                   *)
(*                                                                         *)
(* A coordinate is a position on one meridian, in whole kilometres of arc. *)
(* For two points of equal longitude the Haversine formula of              *)
(* calculate_distance reduces to R * |dlat| (radians), the arc length      *)
(* between them.                                                           *)
(*                                                                         *)
(* A Python string is a sequence of one-character strings.                 *)
(*                                                                         *)
(* A venue's rating and trending_score are stored in tenths (rating 50 is  *)
(* 5.0, trending_score 10 is 1.0); capacity and duration_seconds are the   *)
(* integers of the program.                                                *)
(***************************************************************************)
EXTENDS Integers, Sequences, FiniteSets, TLC

VARIABLES
    users,             \* table users: user_id -> row
    venues,            \* table venues, in the order SELECT * returns it
    interactions,      \* table interactions, in insertion (timestamp) order
    bookings,          \* table bookings
    groups,            \* table groups, in the order SELECT * returns it
    connections,       \* table connections of the Flask database
    flask_bookings,    \* table bookings of the Flask database, in rowid order
    scaler,            \* RecommendationEngine.scaler
    rank_model,        \* RecommendationEngine.rank_model (set by training only)
    training_samples,  \* RecommendationEngine.training_samples (same)
    pc,                \* position of the training call in flight
    X,                 \* local X, y of the training call in flight
    min_samples,       \* argument of the last training call
    ret                \* what the last completed call returned

vars == <<users, venues, interactions, bookings, groups,
          connections, flask_bookings,
          scaler, rank_model, training_samples, pc, X, min_samples, ret>>

----------------------------------------------------------------------------
(* Bounds of the model *)

MaxVenues == 2         \* venues in the catalog
MaxInteractions == 2   \* rows of the interaction log
MaxLimit == 2          \* largest limit argument
MaxMinSamples == 2     \* largest min_samples argument
MaxBookings == 2       \* rows of the Flask bookings table

(* 1.0 in fixed point *)
Scale == 1200 * 1000

----------------------------------------------------------------------------
(* Enumerations *)

VIEW == "view"
LIKE == "like"
COMMENT == "comment"
SAVE == "save"
CLICK == "click"
VISIT == "visit"

InteractionType == {VIEW, LIKE, COMMENT, SAVE, CLICK, VISIT}

CAFE == "Cafe"
PARK == "Park"
GYM == "Gym"

VenueCategory == {CAFE, PARK, GYM}

None == [none |-> TRUE]

----------------------------------------------------------------------------
(* Small helpers *)

Min(a, b) == IF a <= b THEN a ELSE b
Max(a, b) == IF a >= b THEN a ELSE b

Range(s) == {s[i] : i \in 1..Len(s)}

Reverse(s) == [i \in 1..Len(s) |-> s[Len(s) + 1 - i]]

RECURSIVE FilterSeq(_, _)
FilterSeq(s, keep) ==
    IF s = <<>> THEN <<>>
    ELSE IF Head(s) \in keep THEN <<Head(s)>> \o FilterSeq(Tail(s), keep)
         ELSE FilterSeq(Tail(s), keep)

(* s[:n] for n >= 0 *)
Slice(s, n) == SubSeq(s, 1, Min(n, Len(s)))

(* str.lower() over the alphabet of the model *)
LowerChar(c) ==
    CASE c = "J" -> "j"
      [] c = "A" -> "a"
      [] c = "P" -> "p"
      [] c = "K" -> "k"
      [] c = "I" -> "i"
      [] OTHER -> c

lower(s) == [i \in 1..Len(s) |-> LowerChar(s[i])]

(* needle in haystack *)
str_in(needle, haystack) ==
    \E i \in 0..(Len(haystack) - Len(needle)) :
        SubSeq(haystack, i + 1, i + Len(needle)) = needle

----------------------------------------------------------------------------
(* LunaDatabase: the read interface the engine uses *)

get_all_user_ids == DOMAIN users

get_user(user_id) == IF user_id \in DOMAIN users THEN users[user_id] ELSE None

get_venue(venue_id) ==
    IF \E i \in 1..Len(venues) : venues[i].venue_id = venue_id
    THEN venues[CHOOSE i \in 1..Len(venues) : venues[i].venue_id = venue_id]
    ELSE None

get_all_venues == venues

(* faulty variant: the rows of a user as they were before the newest one
   was logged *)
get_user_interactions_stale(user_id) ==
    LET rows == FilterSeq(interactions,
                          {r \in Range(interactions) : r.user_id = user_id})
    IN  Reverse(SubSeq(rows, 1, Len(rows) - 1))

(* WHERE user_id = ? ORDER BY timestamp DESC: the newest row first *)
get_user_interactions(user_id) ==
    Reverse(FilterSeq(interactions,
                      {r \in Range(interactions) : r.user_id = user_id}))

(* WHERE user_id = ? *)
get_user_bookings(user_id) ==
    FilterSeq(bookings, {b \in Range(bookings) : b.user_id = user_id})

(* the text of a user id *)
IdText(user_id) ==
    CASE user_id = "user_000" -> <<"u", "s", "e", "r", "_", "0", "0", "0">>
      [] user_id = "user_001" -> <<"u", "s", "e", "r", "_", "0", "0", "1">>
      [] user_id = "user_002" -> <<"u", "s", "e", "r", "_", "0", "0", "2">>
      [] user_id = "user_003" -> <<"u", "s", "e", "r", "_", "0", "0", "3">>
      [] user_id = "user_0001" ->
            <<"u", "s", "e", "r", "_", "0", "0", "0", "1">>
      [] OTHER -> <<"u", "s", "e", "r", "_", "9", "9", "9">>

(* WHERE creator_id = ? OR members LIKE '%user_id%': the id occurs in the
   JSON text of the member list; it holds no quote and no comma, so it
   occurs inside the text of one member. The underscore of the pattern
   matches any one character: in every id here that is an underscore. *)
get_user_groups(user_id) ==
    FilterSeq(groups, {g \in Range(groups) :
                          \/ g.creator_id = user_id
                          \/ \E k \in 1..Len(g.members) :
                                str_in(IdText(user_id), IdText(g.members[k]))})

----------------------------------------------------------------------------
(* RecommendationEngine.calculate_distance, in km *)

(* faulty variant: the signed difference *)
calculate_distance_signed(loc1, loc2) == loc1 - loc2

calculate_distance(loc1, loc2) ==
    IF loc2 >= loc1 THEN loc2 - loc1 ELSE loc1 - loc2

----------------------------------------------------------------------------
(* RecommendationEngine.build_user_profile *)

NoMetrics == [views |-> 0, likes |-> 0, saves |-> 0, visits |-> 0]

(* category_engagement[category][field] += 1 on the defaultdict *)
Bump(engagement, category, fld) ==
    LET cur == IF category \in DOMAIN engagement
               THEN engagement[category] ELSE NoMetrics
    IN  [c \in (DOMAIN engagement) \cup {category} |->
            IF c = category THEN [cur EXCEPT ![fld] = @ + 1]
            ELSE engagement[c]]

(* the loop over the interactions: the state after rows i..Len(rows), from
   acc = [engagement, total_view_time] *)
RECURSIVE AccumulateEngagement(_, _, _)
AccumulateEngagement(rows, i, acc) ==
    IF i > Len(rows) THEN acc
    ELSE
      LET interaction == rows[i]
          venue == get_venue(interaction.venue_id)
          next ==
            IF venue = None THEN acc
            ELSE IF interaction.interaction_type = VIEW
              THEN [engagement |-> Bump(acc.engagement, venue.category, "views"),
                    total_view_time |->
                        acc.total_view_time + interaction.duration_seconds]
            ELSE IF interaction.interaction_type = LIKE
              THEN [acc EXCEPT !.engagement = Bump(@, venue.category, "likes")]
            ELSE IF interaction.interaction_type = SAVE
              THEN [acc EXCEPT !.engagement = Bump(@, venue.category, "saves")]
            ELSE IF interaction.interaction_type = VISIT
              THEN [acc EXCEPT !.engagement = Bump(@, venue.category, "visits")]
            ELSE acc
      IN  AccumulateEngagement(rows, i + 1, next)

(* faulty variant: a like weighted 1.5 and a save 1.0 *)
CategoryScoreSwapped(metrics) ==
    ((metrics.views * 3 + metrics.likes * 15
      + metrics.saves * 10 + metrics.visits * 20) * (Scale \div 10))

(* views*0.3 + likes*1.0 + saves*1.5 + visits*2.0 *)
CategoryScore(metrics) ==
    ((metrics.views * 3 + metrics.likes * 10
      + metrics.saves * 15 + metrics.visits * 20) * (Scale \div 10))

(* an exception that leaves a call, and the test for it on what a call that
   returns a record gives *)
Raise(kind) == [raised |-> kind]
IsRaised(r) == "raised" \in DOMAIN r

(* faulty variant: the number of VIEW rows as it is *)
AvgViewDivisorBare(nviews) == nviews

(* max(len([i for i in interactions if ... == VIEW]), 1) *)
AvgViewDivisor(nviews) == Max(nviews, 1)

(* the profile; user.location on None raises AttributeError, a division by
   0 raises ZeroDivisionError *)
build_user_profile(user_id) ==
    LET user == get_user(user_id)
        rows == get_user_interactions(user_id)
        acc  == AccumulateEngagement(rows, 1,
                    [engagement |-> <<>>, total_view_time |-> 0])
        nviews == Cardinality({i \in 1..Len(rows) :
                                  rows[i].interaction_type = VIEW})
    IN  IF user = None THEN Raise("AttributeError")
        ELSE IF AvgViewDivisor(nviews) = 0 THEN Raise("ZeroDivisionError")
        ELSE
        [user_id |-> user_id,
         location |-> user.location,
         interests |-> user.interests,
         category_scores |->
             [c \in DOMAIN acc.engagement |-> CategoryScore(acc.engagement[c])],
         total_engagement |-> Len(rows),
         avg_view_time |->
             (acc.total_view_time * Scale) \div AvgViewDivisor(nviews)]

----------------------------------------------------------------------------
(* RecommendationEngine.get_venue_features: the vector
   <<rating, distance, trending, category, capacity>> *)

(* faulty variant of get_venue_features: the distance score without max(0, .) *)
get_venue_features_unclamped(venue, user_profile) ==
    LET distance == calculate_distance(user_profile.location, venue.location)
        present == venue.category \in DOMAIN user_profile.category_scores
    IN  << venue.rating * (Scale \div 50),
           Scale - distance * (Scale \div 10),
           venue.trending_score * (Scale \div 10),
           IF present THEN user_profile.category_scores[venue.category]
           ELSE (5 * Scale) \div 100,
           venue.capacity * (Scale \div 1000) >>

get_venue_features(venue, user_profile) ==
    LET distance == calculate_distance(user_profile.location, venue.location)
        distance_score == Max(0, Scale - distance * (Scale \div 10))
        present == venue.category \in DOMAIN user_profile.category_scores
        \* category_match * category_engagement: 1.0 * score, or 0.5 * 0.1
        category_component ==
            IF present THEN user_profile.category_scores[venue.category]
            ELSE (5 * Scale) \div 100
    IN  << venue.rating * (Scale \div 50),
           distance_score,
           venue.trending_score * (Scale \div 10),
           category_component,
           venue.capacity * (Scale \div 1000) >>

----------------------------------------------------------------------------
(* list.sort(key=..., reverse=True) on a list with these keys: the indices of
   the list in their sorted order.  The sort is stable, reverse included:
   rows of equal key keep their order. *)

RankOf(keys, i) ==
    Cardinality({j \in 1..Len(keys) : keys[j] > keys[i]})
    + Cardinality({j \in 1..i : keys[j] = keys[i]})

(* faulty variants: the sort without reverse=True; the ascending sort read backwards,
   which turns the rows of equal key around *)
sort_forward(keys) ==
    [p \in 1..Len(keys) |->
        CHOOSE i \in 1..Len(keys) :
            Cardinality({j \in 1..Len(keys) : keys[j] < keys[i]})
            + Cardinality({j \in 1..i : keys[j] = keys[i]}) = p]

sort_backwards(keys) ==
    [p \in 1..Len(keys) |->
        CHOOSE i \in 1..Len(keys) :
            Cardinality({j \in 1..Len(keys) : keys[j] > keys[i]})
            + Cardinality({j \in i..Len(keys) : keys[j] = keys[i]}) = p]

sort_reverse(keys) ==
    [p \in 1..Len(keys) |-> CHOOSE i \in 1..Len(keys) : RankOf(keys, i) = p]

----------------------------------------------------------------------------
(* RecommendationEngine.recommend_venues *)

(* faulty variant: every feature weighted 0.2 *)
BaseScoreEven(features) ==
    (features[1] * 20 + features[2] * 20 + features[3] * 20
     + features[4] * 20 + features[5] * 20) \div 100

(* np.sum(features * np.array([0.25, 0.25, 0.2, 0.25, 0.05])) *)
BaseScore(features) ==
    (features[1] * 25 + features[2] * 25 + features[3] * 20
     + features[4] * 25 + features[5] * 5) \div 100

(* faulty variant: the interests compared without lower() *)
InterestBoostCased(interests, venue) ==
    Cardinality({k \in 1..Len(interests) :
        \/ str_in(interests[k], venue.name)
        \/ str_in(interests[k], venue.description)})
    * ((15 * Scale) \div 100)

(* +0.15 for every interest of the list found in the name or description *)
InterestBoost(interests, venue) ==
    Cardinality({k \in 1..Len(interests) :
        \/ str_in(lower(interests[k]), lower(venue.name))
        \/ str_in(lower(interests[k]), lower(venue.description))})
    * ((15 * Scale) \div 100)

(* category_scores.get(category, 0) * 0.1 *)
CategoryBoost(category_scores, venue) ==
    IF venue.category \in DOMAIN category_scores
    THEN category_scores[venue.category] \div 10
    ELSE 0

(* faulty variant: the sum without the clamp *)
FinalScoreUnclamped(base_score, interest_boost, category_boost) ==
    base_score + interest_boost + category_boost

FinalScore(base_score, interest_boost, category_boost) ==
    Min(Scale, base_score + interest_boost + category_boost)

(* faulty variant: once a ranker is trained, its prediction (here the
   rating feature) is averaged into the final score *)
ScoreVenueBlended(venue, user_profile) ==
    LET features == get_venue_features(venue, user_profile)
        interest_boost == InterestBoost(user_profile.interests, venue)
        category_boost == CategoryBoost(user_profile.category_scores, venue)
        hybrid == FinalScore(BaseScore(features), interest_boost, category_boost)
        final_score == IF rank_model.loaded
                       THEN (hybrid + features[1]) \div 2 ELSE hybrid
    IN  [scored |-> [venue_id |-> venue.venue_id, score |-> final_score],
         detail |-> [venue |-> venue.name,
                     rating_component |-> features[1],
                     distance_component |-> features[2],
                     trending_component |-> features[3],
                     category_component |-> features[4],
                     interest_boost |-> interest_boost,
                     category_boost |-> category_boost,
                     final_score |-> final_score]]

(* one turn of the loop over the catalog: the scored_venues tuple and the
   reasoning_details entry of one venue *)
ScoreVenue(venue, user_profile) ==
    LET features == get_venue_features(venue, user_profile)
        interest_boost == InterestBoost(user_profile.interests, venue)
        category_boost == CategoryBoost(user_profile.category_scores, venue)
        final_score ==
            FinalScore(BaseScore(features), interest_boost, category_boost)
    IN  [scored |-> [venue_id |-> venue.venue_id, score |-> final_score],
         detail |-> [venue |-> venue.name,
                     rating_component |-> features[1],
                     distance_component |-> features[2],
                     trending_component |-> features[3],
                     category_component |-> features[4],
                     interest_boost |-> interest_boost,
                     category_boost |-> category_boost,
                     final_score |-> final_score]]

(* the loop over the catalog, from venue i on: what it appends to
   scored_venues and to reasoning_details *)
RECURSIVE ScoreVenues(_, _, _)
ScoreVenues(all_venues, i, user_profile) ==
    IF i > Len(all_venues) THEN <<>>
    ELSE <<ScoreVenue(all_venues[i], user_profile)>>
         \o ScoreVenues(all_venues, i + 1, user_profile)

(* faulty variant: the details of equal score in the reverse of their
   catalog order *)
recommend_venues_details_backwards(user_id, limit) ==
    LET user_profile == build_user_profile(user_id)
        rows == ScoreVenues(get_all_venues, 1, user_profile)
        n == Len(rows)
        by_score == sort_reverse([i \in 1..n |-> rows[i].scored.score])
        by_final == sort_backwards([i \in 1..n |-> rows[i].detail.final_score])
    IN  IF IsRaised(user_profile) THEN user_profile
        ELSE
        [recommendations |-> Slice([p \in 1..n |-> rows[by_score[p]].scored], limit),
         details |-> Slice([p \in 1..n |-> rows[by_final[p]].detail], limit)]

(* the pair returned: the (venue, score) list and the "details" of the
   reasoning dict, each sorted on its own and cut to limit; an exception of
   build_user_profile leaves the call *)
recommend_venues(user_id, limit) ==
    LET user_profile == build_user_profile(user_id)
        rows == ScoreVenues(get_all_venues, 1, user_profile)
        n == Len(rows)
        by_score == sort_reverse([i \in 1..n |-> rows[i].scored.score])
        by_final == sort_reverse([i \in 1..n |-> rows[i].detail.final_score])
    IN  IF IsRaised(user_profile) THEN user_profile
        ELSE
        [recommendations |-> Slice([p \in 1..n |-> rows[by_score[p]].scored], limit),
         details |-> Slice([p \in 1..n |-> rows[by_final[p]].detail], limit)]

----------------------------------------------------------------------------
(* RecommendationEngine.train_ranker_from_interactions: the dataset *)

(* faulty variant: a VIEW of exactly 15 seconds gets no label *)
InteractionLabelStrict(inter) ==
    IF inter.interaction_type \in {LIKE, SAVE, VISIT} THEN <<Scale>>
    ELSE IF inter.interaction_type = VIEW
      THEN IF inter.duration_seconds < 15 THEN <<0>>
           ELSE IF inter.duration_seconds >= 60 THEN <<Scale>>
           ELSE <<>>
    ELSE <<>>

(* the label of one interaction: <<label>>, or <<>> for None *)
InteractionLabel(inter) ==
    IF inter.interaction_type \in {LIKE, SAVE, VISIT} THEN <<Scale>>
    ELSE IF inter.interaction_type = VIEW
      THEN IF inter.duration_seconds <= 15 THEN <<0>>
           ELSE IF inter.duration_seconds >= 60 THEN <<Scale>>
           ELSE <<>>
    ELSE <<>>

(* faulty variant: the label seen last replaces the one kept *)
LatestLabel(prev, label) == label

(* venue_label[venue_id] = max(prev, label) *)
StrongestLabel(prev, label) == Max(prev, label)

(* the loop that fills venue_label, over rows i..Len(rows) *)
RECURSIVE AggregateLabels(_, _, _)
AggregateLabels(rows, i, venue_label) ==
    IF i > Len(rows) THEN venue_label
    ELSE
      LET inter == rows[i]
          label == InteractionLabel(inter)
          prev == IF inter.venue_id \in DOMAIN venue_label
                  THEN venue_label[inter.venue_id] ELSE 0
          next ==
            IF label = <<>> THEN venue_label
            ELSE [v \in (DOMAIN venue_label) \cup {inter.venue_id} |->
                    IF v = inter.venue_id THEN StrongestLabel(prev, label[1])
                    ELSE venue_label[v]]
      IN  AggregateLabels(rows, i + 1, next)

(* the rows one user adds to X, y: one per labelled venue that is stored *)
UserSamples(uid) ==
    LET profile == build_user_profile(uid)
        venue_label == AggregateLabels(get_user_interactions(uid), 1, <<>>)
    IN  {[user_id |-> uid, venue_id |-> vid,
          feats |-> get_venue_features(get_venue(vid), profile),
          label |-> venue_label[vid]] :
            vid \in {v \in DOMAIN venue_label : get_venue(v) # None}}

(* X, y after the loop over the users; the order of the rows is dropped *)
GatherSamples == UNION {UserSamples(uid) : uid \in get_all_user_ids}

(* faulty variant: the gate one sample too low *)
NotEnoughSamplesOffByOne(n, ms) == n + 1 < ms

(* if len(X) < min_samples: return *)
NotEnoughSamples(n, ms) == n < ms

----------------------------------------------------------------------------
(* RecommendationEngine.recommend_users *)

UserIdTable == <<"user_000", "user_001", "user_002", "user_003">>

(* f"user_{i:03d}" *)
UserIdFormat(i) == IF i < Len(UserIdTable) THEN UserIdTable[i + 1] ELSE "user_999"

(* faulty variant: the blocked users stay in *)
RECURSIVE CollectUsersNoBlock(_, _, _)
CollectUsersNoBlock(user_id, i, all_users) ==
    LET user == get_user(UserIdFormat(i))
    IN  IF user = None THEN all_users
        ELSE IF user.user_id # user_id
             THEN CollectUsersNoBlock(user_id, i + 1,
                                      Append(all_users, user.user_id))
             ELSE CollectUsersNoBlock(user_id, i + 1, all_users)

(* faulty variant: a missing id is skipped and the loop goes on to the end
   of the table of ids *)
RECURSIVE CollectUsersSkipping(_, _, _)
CollectUsersSkipping(user_id, i, all_users) ==
    LET user == get_user(UserIdFormat(i))
        target_user == get_user(user_id)
    IN  IF i >= Len(UserIdTable) THEN all_users
        ELSE IF user # None /\ user.user_id # user_id
                /\ user.user_id \notin target_user.blocked_users
             THEN CollectUsersSkipping(user_id, i + 1,
                                       Append(all_users, user.user_id))
             ELSE CollectUsersSkipping(user_id, i + 1, all_users)

(* the while loop that collects all_users, from index i on *)
RECURSIVE CollectUsers(_, _, _)
CollectUsers(user_id, i, all_users) ==
    LET user == get_user(UserIdFormat(i))
        target_user == get_user(user_id)
    IN  IF user = None THEN all_users
        ELSE IF user.user_id # user_id
                /\ user.user_id \notin target_user.blocked_users
             THEN CollectUsers(user_id, i + 1, Append(all_users, user.user_id))
             ELSE CollectUsers(user_id, i + 1, all_users)

(* faulty variant: the share of the first set that is in the second *)
OverlapOfFirst(a, b) ==
    (Cardinality(a \cap b) * Scale) \div Max(Cardinality(a), 1)

(* |a & b| / max(|a | b|, 1) *)
Overlap(a, b) ==
    (Cardinality(a \cap b) * Scale) \div Max(Cardinality(a \cup b), 1)

(* faulty variant: the category overlap weighted 0.3 *)
CompatibilityScoreLight(target_profile, other_profile) ==
    LET interest_overlap ==
            Overlap(Range(target_profile.interests), Range(other_profile.interests))
        category_overlap ==
            Overlap(DOMAIN target_profile.category_scores,
                    DOMAIN other_profile.category_scores)
        distance ==
            calculate_distance(target_profile.location, other_profile.location)
        location_score == Max(0, Scale - distance * (Scale \div 20))
    IN  (interest_overlap * 40 + category_overlap * 30 + location_score * 25)
        \div 100

(* the body of the loop over all_users: the compatibility_score *)
CompatibilityScore(target_profile, other_profile) ==
    LET interest_overlap ==
            Overlap(Range(target_profile.interests), Range(other_profile.interests))
        category_overlap ==
            Overlap(DOMAIN target_profile.category_scores,
                    DOMAIN other_profile.category_scores)
        distance ==
            calculate_distance(target_profile.location, other_profile.location)
        location_score == Max(0, Scale - distance * (Scale \div 20))
    IN  (interest_overlap * 40 + category_overlap * 35 + location_score * 25)
        \div 100

(* the loop over all_users, from its k-th entry on: what it appends to
   scored_users *)
RECURSIVE ScoreUsers(_, _, _)
ScoreUsers(all_users, k, target_profile) ==
    IF k > Len(all_users) THEN <<>>
    ELSE << [user_id |-> all_users[k],
             score |-> CompatibilityScore(target_profile,
                                          build_user_profile(all_users[k]))] >>
         \o ScoreUsers(all_users, k + 1, target_profile)

(* scored_users before the sort *)
ScoredUsers(user_id) ==
    ScoreUsers(CollectUsers(user_id, 0, <<>>), 1, build_user_profile(user_id))

(* the list returned when no exception leaves the call *)
recommend_users(user_id, limit) ==
    LET scored_users == ScoredUsers(user_id)
        n == Len(scored_users)
        order == sort_reverse([k \in 1..n |-> scored_users[k].score])
    IN  Slice([p \in 1..n |-> scored_users[order[p]]], limit)

(* the first exception among the results of calls made in this order, ""
   when there is none *)
RECURSIVE FirstRaised(_, _)
FirstRaised(results, i) ==
    IF i > Len(results) THEN ""
    ELSE IF IsRaised(results[i]) THEN results[i].raised
    ELSE FirstRaised(results, i + 1)

(* the exception that leaves recommend_users: of the target's profile, else
   of the first candidate's profile that raises *)
recommend_users_raised(user_id) ==
    LET target_profile == build_user_profile(user_id)
    IN  IF IsRaised(target_profile) THEN target_profile.raised
        ELSE LET all_users == CollectUsers(user_id, 0, <<>>)
             IN  FirstRaised([k \in 1..Len(all_users) |->
                                 build_user_profile(all_users[k])], 1)

----------------------------------------------------------------------------
(* RecommendationEngine.recommend_groups *)

(* the share of the group's preferences among the categories of the profile,
   0.5 for a group without preferences *)
PreferenceOverlap(category_scores, group) ==
    IF group.venue_preferences # <<>>
    THEN (Cardinality(DOMAIN category_scores \cap Range(group.venue_preferences))
          * Scale) \div Len(group.venue_preferences)
    ELSE Scale \div 2

(* min(1.0, len(group.members) / 10) *)
SizeScore(group) == Min(Scale, Len(group.members) * (Scale \div 10))

(* faulty variant: the weights 0.4 and 0.6 *)
GroupScoreSwapped(category_scores, group) ==
    (PreferenceOverlap(category_scores, group) * 4 + SizeScore(group) * 6) \div 10

(* preference_overlap * 0.6 + size_score * 0.4 *)
GroupScore(category_scores, group) ==
    (PreferenceOverlap(category_scores, group) * 6 + SizeScore(group) * 4) \div 10

(* faulty variant: the groups the user is a member of are scored too *)
RECURSIVE ScoreGroupsKeepMembers(_, _, _)
ScoreGroupsKeepMembers(all_groups, k, user_id) ==
    IF k > Len(all_groups) THEN <<>>
    ELSE << [group_id |-> all_groups[k].group_id,
             score |-> GroupScore(build_user_profile(user_id).category_scores,
                                  all_groups[k])] >>
         \o ScoreGroupsKeepMembers(all_groups, k + 1, user_id)

(* the loop over all_groups, from its k-th entry on: what it appends to
   scored_groups *)
RECURSIVE ScoreGroups(_, _, _)
ScoreGroups(all_groups, k, user_id) ==
    IF k > Len(all_groups) THEN <<>>
    ELSE IF user_id \in Range(all_groups[k].members)
      THEN ScoreGroups(all_groups, k + 1, user_id)
    ELSE << [group_id |-> all_groups[k].group_id,
             score |-> GroupScore(build_user_profile(user_id).category_scores,
                                  all_groups[k])] >>
         \o ScoreGroups(all_groups, k + 1, user_id)

(* the list returned when no exception leaves the call *)
recommend_groups(user_id, limit) ==
    LET scored_groups == ScoreGroups(get_user_groups(user_id), 1, user_id)
        n == Len(scored_groups)
        order == sort_reverse([k \in 1..n |-> scored_groups[k].score])
    IN  Slice([p \in 1..n |-> scored_groups[order[p]]], limit)

(* the exception that leaves recommend_groups: of the profile *)
recommend_groups_raised(user_id) ==
    LET user_profile == build_user_profile(user_id)
    IN  IF IsRaised(user_profile) THEN user_profile.raised ELSE ""

----------------------------------------------------------------------------
(* The Flask engine (src/backend/models.py): calculate_user_similarity.
   Its users table holds the interests and the coordinates of a user as the
   users table above does. *)

(* round(x, 3): the nearest multiple of 0.001, a tie to the even one *)
Round3(x) ==
    LET unit == Scale \div 1000
        q == x \div unit
        r == x % unit
    IN  IF 2 * r < unit THEN q * unit
        ELSE IF 2 * r > unit THEN (q + 1) * unit
        ELSE IF q % 2 = 0 THEN q * unit ELSE (q + 1) * unit

calculate_user_similarity(user_id_1, user_id_2) ==
    LET user1 == get_user(user_id_1)
        user2 == get_user(user_id_2)
    IN  IF user1 = None \/ user2 = None THEN 0
        ELSE
          LET interests1 == Range(user1.interests)
              interests2 == Range(user2.interests)
              common == Cardinality(interests1 \cap interests2)
              total == Cardinality(interests1 \cup interests2)
              interest_score ==
                  IF total > 0 THEN (common * Scale) \div total
                  ELSE (5 * Scale) \div 10
              distance == calculate_distance(user1.location, user2.location)
              location_score == Max(0, Scale - distance * (Scale \div 10))
          IN  Round3((interest_score * 6 + location_score * 4) \div 10)

----------------------------------------------------------------------------
(* The stores and the inputs the model draws from *)

DefaultMinSamples == 50

(* v1 is at the top of every range and holds both interests of user_001;
   v2 and v3 are at the bottom of every range and differ in their ids and
   names only *)
VenuePool ==
    { [venue_id |-> "v1", name |-> <<"J", "a">>, category |-> CAFE,
       location |-> 0, description |-> <<"P", "k">>, rating |-> 50,
       capacity |-> 2000, trending_score |-> 10],
      [venue_id |-> "v2", name |-> <<"P", "a">>, category |-> PARK,
       location |-> 10, description |-> <<>>, rating |-> 0,
       capacity |-> 1, trending_score |-> 0],
      [venue_id |-> "v3", name |-> <<"K", "a">>, category |-> PARK,
       location |-> 10, description |-> <<>>, rating |-> 0,
       capacity |-> 1, trending_score |-> 0] }

(* two venues alike in everything but their ids and places, of a category
   no logged interaction is with; their name holds every interest of
   user_000 and user_001 of UsersTwins *)
ScenarioPool ==
    { [venue_id |-> "vA", name |-> <<"J", "a", "P", "k">>, category |-> GYM,
       location |-> 0, description |-> <<>>, rating |-> 50,
       capacity |-> 100, trending_score |-> 5],
      [venue_id |-> "vB", name |-> <<"J", "a", "P", "k">>, category |-> GYM,
       location |-> 10, description |-> <<>>, rating |-> 50,
       capacity |-> 100, trending_score |-> 5] }

(* the catalogs over a pool: venue_id is the primary key of the table *)
CatalogsOver(pool) ==
    {c \in UNION {[1..n -> pool] : n \in 0..MaxVenues} :
        \A i, j \in 1..Len(c) : c[i].venue_id = c[j].venue_id => i = j}

Catalogs == CatalogsOver(VenuePool) \cup CatalogsOver(ScenarioPool)

User0 == [user_id |-> "user_000", location |-> 0,
          interests |-> << <<"j", "A">> >>, blocked_users |-> {"user_002"}]
User1 == [user_id |-> "user_001", location |-> 4,
          interests |-> << <<"j", "A">>, <<"p", "k">> >>, blocked_users |-> {}]
User2 == [user_id |-> "user_002", location |-> 30,
          interests |-> <<>>, blocked_users |-> {}]

UsersAll == [u \in {"user_000", "user_001", "user_002"} |->
                IF u = "user_000" THEN User0
                ELSE IF u = "user_001" THEN User1 ELSE User2]

(* user_000 and user_001 share their place and their five interests, listed
   in another order; user_002 and user_003 share their place and have no
   interest *)
Keen0 == [user_id |-> "user_000", location |-> 0,
          interests |-> << <<"j">>, <<"a">>, <<"p">>, <<"k">>, <<"j", "A">> >>,
          blocked_users |-> {}]
Keen1 == [user_id |-> "user_001", location |-> 0,
          interests |-> << <<"j", "A">>, <<"k">>, <<"p">>, <<"a">>, <<"j">> >>,
          blocked_users |-> {}]
Bare3 == [user_id |-> "user_003", location |-> 30,
          interests |-> <<>>, blocked_users |-> {}]

UsersTwins == [u \in {"user_000", "user_001", "user_002", "user_003"} |->
                  IF u = "user_000" THEN Keen0
                  ELSE IF u = "user_001" THEN Keen1
                  ELSE IF u = "user_002" THEN User2 ELSE Bare3]

(* user_001 is missing; user_0001 has an id of another format *)
Odd1 == [user_id |-> "user_0001", location |-> 0,
         interests |-> << <<"j">> >>, blocked_users |-> {}]

UsersGap == [u \in {"user_000", "user_002", "user_0001"} |->
                IF u = "user_000" THEN Keen0
                ELSE IF u = "user_002" THEN User2 ELSE Odd1]

UserTables == {UsersAll, UsersTwins, UsersGap}

UsersTrain == [u \in {"user_000", "user_001"} |->
                IF u = "user_000" THEN User0 ELSE User1]

TrainCatalog ==
    << CHOOSE v \in VenuePool : v.venue_id = "v1",
       CHOOSE v \in VenuePool : v.venue_id = "v2" >>

Row(u, v, t, d) ==
    [user_id |-> u, venue_id |-> v, interaction_type |-> t, duration_seconds |-> d]

(* every kind of interaction, a VIEW at and between the two thresholds *)
Kinds == {<<VIEW, 15>>, <<VIEW, 30>>, <<VIEW, 60>>, <<LIKE, 0>>, <<SAVE, 0>>,
          <<VISIT, 0>>, <<COMMENT, 0>>, <<CLICK, 0>>}

ServeInputs ==
    { Row("user_000", "v1", VISIT, 0), Row("user_000", "v2", VIEW, 30),
      Row("user_001", "v1", LIKE, 0), Row("user_002", "v2", SAVE, 0) }

(* "v9" is the id of no venue *)
TrainInputs ==
    {Row("user_000", "v1", k[1], k[2]) : k \in Kinds}
    \cup {Row("user_001", "v1", VISIT, 0), Row("user_001", "v1", VIEW, 15),
          Row("user_000", "v9", VIEW, 60), Row("user_000", "v2", LIKE, 0)}

(* the bookings and the groups: user_000 is the creator of two groups it is
   not a member of, one of them without preferences, and a member of a
   third; the text of the member list of the fourth holds the id user_000
   inside the id user_0001 *)
BookingsTable ==
    << [booking_id |-> "b1", user_id |-> "user_000", venue_id |-> "v1"] >>

GroupsTable ==
    << [group_id |-> "g1", creator_id |-> "user_000",
        members |-> <<"user_001", "user_002">>,
        venue_preferences |-> <<CAFE, PARK>>],
       [group_id |-> "g2", creator_id |-> "user_000",
        members |-> <<"user_001">>, venue_preferences |-> <<>>],
       [group_id |-> "g3", creator_id |-> "user_001",
        members |-> <<"user_001", "user_000">>,
        venue_preferences |-> <<GYM>>],
       [group_id |-> "g4", creator_id |-> "user_0001",
        members |-> <<"user_0001">>,
        venue_preferences |-> <<CAFE>>] >>

NoReturn == [op |-> "none"]

InitEngine ==
    /\ scaler = [fitted |-> FALSE, data |-> {}]
    /\ rank_model = [loaded |-> FALSE, data |-> {}]
    /\ training_samples = [loaded |-> FALSE, n |-> 0]
    /\ pc = "idle"
    /\ X = {}
    /\ min_samples = DefaultMinSamples
    /\ ret = NoReturn

Init ==
    /\ users \in UserTables
    /\ venues \in Catalogs
    /\ interactions = <<>>
    /\ bookings = BookingsTable
    /\ groups = GroupsTable
    /\ connections = {}
    /\ flask_bookings = <<>>
    /\ InitEngine

InitTrain ==
    /\ users = UsersTrain
    /\ venues = TrainCatalog
    /\ interactions = <<>>
    /\ bookings = BookingsTable
    /\ groups = GroupsTable
    /\ connections = {}
    /\ flask_bookings = <<>>
    /\ InitEngine

----------------------------------------------------------------------------
(* LunaAgent.analyze_group_chat (src/luna_agent.py) *)

(* category.value.lower() *)
CategoryValueLower(category) ==
    CASE category = CAFE -> "café"
      [] category = PARK -> "park"
      [] category = GYM -> "gym"

(* a word occurs in text_lower, the lowered chat text: the words looked for
   hold no newline, dash or blank, so they occur inside one message *)
ChatHas(group_messages, word) ==
    \E m \in 1..Len(group_messages) : str_in(word, lower(group_messages[m]))

(* the agent has no model: no API key, or the configuration failed *)
NoModel == [model |-> FALSE]

(* what the model may answer: a vibe and a cuisine, and whether the rest of
   the answer is read without an exception (int(data.get("mood", 60)) raises
   on a mood that is no number, after group_vibe and cuisine_pref are
   assigned and before the vibe is checked against the list) *)
LLMAnswers ==
    [model : {TRUE},
     vibe : {"romantic", "calm", "party", "mixed", "chill"},
     cuisine : {"any", "italian", "indian"},
     completes : BOOLEAN]

(* step 2: group_vibe and cuisine_pref after the LLM extraction; "" stands
   for the default None, false like it *)
LLMExtraction(llm) ==
    IF ~llm.model THEN [group_vibe |-> "mixed", cuisine_pref |-> ""]
    ELSE [group_vibe |->
             IF llm.completes
                /\ llm.vibe \notin {"romantic", "adventure", "calm", "party",
                                    "mixed"}
             THEN "mixed" ELSE llm.vibe,
          cuisine_pref |-> llm.cuisine]

(* step 3: the rule-based cuisine detection *)
CuisineRule(group_messages, cuisine_pref) ==
    LET c1 == IF \/ ChatHas(group_messages,
                            <<"i", "t", "a", "l", "i", "a", "n">>)
                 \/ ChatHas(group_messages, <<"p", "a", "s", "t", "a">>)
                 \/ ChatHas(group_messages, <<"p", "i", "z", "z", "a">>)
              THEN "italian" ELSE cuisine_pref
        c2 == IF ChatHas(group_messages, <<"s", "u", "s", "h", "i">>)
              THEN "japanese" ELSE c1
        c3 == IF ChatHas(group_messages, <<"s", "p", "i", "c", "y">>) /\ c2 = ""
              THEN "indian" ELSE c2
    IN  IF c3 = "" THEN "any" ELSE c3

(* step 6: the cuisine filter over the (venue, score) list *)
CuisineFilter(recs, cuisine_pref) ==
    LET v(r) == get_venue(r.venue_id)
    IN  IF cuisine_pref = "italian"
        THEN FilterSeq(recs, {r \in Range(recs) :
                \/ str_in(<<"i", "t", "a", "l">>, lower(v(r).name))
                \/ str_in(<<"i", "t", "a", "l">>, lower(v(r).description))})
        ELSE IF cuisine_pref = "japanese"
        THEN FilterSeq(recs, {r \in Range(recs) :
                \/ str_in(<<"j", "a", "p", "a", "n">>, lower(v(r).description))
                \/ str_in(<<"s", "u", "s", "h", "i">>, lower(v(r).name))})
        ELSE IF cuisine_pref = "indian"
        THEN FilterSeq(recs, {r \in Range(recs) :
                str_in(<<"i", "n", "d", "i", "a", "n">>,
                       lower(v(r).description))})
        ELSE recs

(* step 7: the vibe filter *)
VibeFilter(recs, group_vibe) ==
    LET v(r) == get_venue(r.venue_id)
    IN  IF group_vibe = "romantic"
        THEN FilterSeq(recs, {r \in Range(recs) :
                \/ str_in(<<"c", "a", "f", "e">>, lower(v(r).name))
                \/ str_in(<<"r", "o", "o", "f", "t", "o", "p">>,
                          lower(v(r).name))})
        ELSE IF group_vibe = "adventure"
        THEN FilterSeq(recs, {r \in Range(recs) :
                CategoryValueLower(v(r).category) \in {"hiking", "nightlife"}})
        ELSE IF group_vibe = "calm"
        THEN FilterSeq(recs, {r \in Range(recs) :
                CategoryValueLower(v(r).category) \in {"park", "art", "cafe"}})
        ELSE IF group_vibe = "party"
        THEN FilterSeq(recs, {r \in Range(recs) :
                CategoryValueLower(v(r).category) \in {"nightlife"}})
        ELSE recs

(* step 8: the failsafe, and final_recs = vibe_filtered[:3] *)
Failsafe(vibe_filtered, cuisine_filtered, recs) ==
    LET first == IF vibe_filtered = <<>> THEN cuisine_filtered ELSE vibe_filtered
        second == IF first = <<>> THEN recs ELSE first
    IN  Slice(second, 3)

(* the dict returned (vibe, cuisine, recommendations; budget, mood and the
   formatted text do not enter the recommendations), or the exception of
   recommend_venues *)
analyze_group_chat(group_messages, user_id, llm) ==
    IF group_messages = <<>>
    THEN [message |-> "No group messages found.", recommendations |-> <<>>]
    ELSE LET extracted == LLMExtraction(llm)
             cuisine_pref == CuisineRule(group_messages, extracted.cuisine_pref)
             result == recommend_venues(user_id, 20)
         IN  IF IsRaised(result) THEN result
             ELSE LET recs == result.recommendations
                      cuisine_filtered == CuisineFilter(recs, cuisine_pref)
                      vibe_filtered ==
                          VibeFilter(cuisine_filtered, extracted.group_vibe)
                  IN  [vibe |-> extracted.group_vibe,
                       cuisine |-> cuisine_pref,
                       recommendations |->
                           Failsafe(vibe_filtered, cuisine_filtered, recs)]

(* a venue with "Ital" in its name, and the catalogs of the agent: three
   venues, or four with a second park *)
ItalVenue ==
    [venue_id |-> "v4", name |-> <<"I", "t", "a", "l">>, category |-> GYM,
     location |-> 0, description |-> <<>>, rating |-> 40,
     capacity |-> 100, trending_score |-> 5]

AgentCatalogs ==
    { TrainCatalog \o <<ItalVenue>>,
      TrainCatalog \o <<ItalVenue, CHOOSE v \in VenuePool : v.venue_id = "v3">> }

(* the chats: each message a text *)
ChatPool ==
    { <<>>,
      << <<"h", "i">> >>,
      << <<"P", "i", "z", "z", "a">> >>,
      << <<"s", "u", "s", "h", "i">> >>,
      << <<"h", "i">>, <<"s", "p", "i", "c", "y">> >>,
      << <<"P", "i", "z", "z", "a">>, <<"s", "u", "s", "h", "i">> >> }

InitAgent ==
    /\ users = UsersAll
    /\ venues \in AgentCatalogs
    /\ interactions = <<>>
    /\ bookings = BookingsTable
    /\ groups = GroupsTable
    /\ connections = {}
    /\ flask_bookings = <<>>
    /\ InitEngine

----------------------------------------------------------------------------
(* The Flask backend: recommend_people (src/backend/models.py), the
   connections and bookings tables (src/backend/database.py) and the booking
   agent (src/backend/agents.py). Its users and venues tables hold the rows
   of the tables above; a venue row has a capacity. *)

(* SELECT * FROM users: the ids in rowid order *)
FlaskIdOrder == UserIdTable \o <<"user_0001">>

get_all_users == FilterSeq(FlaskIdOrder, DOMAIN users)

(* the loop of recommend_people over all_users, from its k-th row on: what
   it appends to compatible *)
RECURSIVE Compatible(_, _, _)
Compatible(user_id, all_users, k) ==
    IF k > Len(all_users) THEN <<>>
    ELSE IF all_users[k] = user_id THEN Compatible(user_id, all_users, k + 1)
    ELSE << [id |-> all_users[k],
             compatibility_score |->
                 calculate_user_similarity(user_id, all_users[k])] >>
         \o Compatible(user_id, all_users, k + 1)

(* Database.add_connection: the INSERT, which the UNIQUE(user_id_1,
   user_id_2) constraint rejects for a stored pair; the exception is
   swallowed and the stored row stays *)
add_connection(rows, user_id_1, user_id_2, compatibility_score) ==
    IF \E r \in rows : r.user_id_1 = user_id_1 /\ r.user_id_2 = user_id_2
    THEN rows
    ELSE rows \cup {[user_id_1 |-> user_id_1, user_id_2 |-> user_id_2,
                     compatibility_score |-> compatibility_score]}

(* for person in compatible[:top_n]: add_connection(...) *)
RECURSIVE SaveConnections(_, _, _, _)
SaveConnections(rows, user_id, people, k) ==
    IF k > Len(people) THEN rows
    ELSE SaveConnections(
            add_connection(rows, user_id, people[k].id,
                           people[k].compatibility_score),
            user_id, people, k + 1)

(* what recommend_people returns: sorted(compatible, ...)[:top_n], [] for a
   user that is not stored *)
recommend_people(user_id, top_n) ==
    IF get_user(user_id) = None THEN <<>>
    ELSE LET compatible == Compatible(user_id, get_all_users, 1)
             n == Len(compatible)
             order == sort_reverse([k \in 1..n |->
                                       compatible[k].compatibility_score])
         IN  Slice([p \in 1..n |-> compatible[order[p]]], top_n)

(* the connections table after recommend_people *)
recommend_people_saved(user_id, top_n) ==
    IF get_user(user_id) = None THEN connections
    ELSE SaveConnections(connections, user_id,
                         Slice(Compatible(user_id, get_all_users, 1), top_n), 1)

(* BookingAgent._find_companions: the loop over all_users, from its k-th
   row on *)
RECURSIVE PotentialCompanions(_, _, _)
PotentialCompanions(user_id, all_users, k) ==
    IF k > Len(all_users) THEN <<>>
    ELSE LET user_interests == Range(get_user(user_id).interests)
             other_interests == Range(get_user(all_users[k]).interests)
         IN  IF all_users[k] # user_id /\ user_interests \cap other_interests # {}
             THEN << [id |-> all_users[k],
                      compatibility |-> Overlap(user_interests, other_interests)] >>
                  \o PotentialCompanions(user_id, all_users, k + 1)
             ELSE PotentialCompanions(user_id, all_users, k + 1)

(* potential_companions sorted by compatibility, [:count] for count >= 0 *)
find_companions(user_id, count) ==
    LET potential_companions == PotentialCompanions(user_id, get_all_users, 1)
        n == Len(potential_companions)
        order == sort_reverse([k \in 1..n |-> potential_companions[k].compatibility])
    IN  Slice([p \in 1..n |-> potential_companions[order[p]].id], count)

(* faulty variant: a party of exactly the capacity is turned away *)
check_availability_strict(venue_id, party_size) ==
    party_size < get_venue(venue_id).capacity

(* BookingAgent._check_availability *)
check_availability(venue_id, party_size) ==
    party_size <= get_venue(venue_id).capacity

(* Database.add_booking: the row inserted, its id the cursor's lastrowid *)
add_booking(user_id, venue_id, party_size, companion_ids) ==
    [booking_id |-> Len(flask_bookings) + 1, user_id |-> user_id,
     venue_id |-> venue_id, party_size |-> party_size,
     companion_ids |-> companion_ids]

(* the dict auto_book_venue returns (status and booking_id) *)
auto_book_venue(user_id, venue_id, party_size) ==
    IF get_user(user_id) = None \/ get_venue(venue_id) = None
    THEN [status |-> "failed"]
    ELSE IF ~check_availability(venue_id, party_size)
    THEN [status |-> "pending"]
    ELSE [status |-> "confirmed", booking_id |-> Len(flask_bookings) + 1]

(* the users, the catalogs and the calls of the Flask backend *)
FlaskUserTables == {UsersAll, UsersTwins}

FlaskCatalogs == {<<ItalVenue>>, TrainCatalog \o <<ItalVenue>>}

PartySizes == {2, ItalVenue.capacity, ItalVenue.capacity + 1}

InitFlask ==
    /\ users \in FlaskUserTables
    /\ venues \in FlaskCatalogs
    /\ interactions = <<>>
    /\ bookings = BookingsTable
    /\ groups = GroupsTable
    /\ connections = {}
    /\ flask_bookings = <<>>
    /\ InitEngine

----------------------------------------------------------------------------
(* The operations *)

db == <<users, venues, interactions, bookings, groups,
        connections, flask_bookings>>
engine == <<scaler, rank_model, training_samples>>
trainer == <<pc, X, min_samples>>

(* LunaDatabase.insert_interaction, with a fresh interaction_id and the
   current time as timestamp (record_interaction of the app) *)
InsertInteraction(inputs) ==
    /\ Len(interactions) < MaxInteractions
    /\ \E interaction \in inputs :
          interactions' = Append(interactions, interaction)
    /\ ret' = [op |-> "insert_interaction"]
    /\ UNCHANGED <<users, venues, bookings, groups, connections,
                   flask_bookings, engine, trainer>>

(* ret is what an observer sees, not a state of the program: a read-only
   call made while ret shows the result of a read-only call leads to the
   state the same call leads to from the state before that result, so the
   read-only calls are taken from the other states *)
ReadOnlyOps == {"build_user_profile", "recommend_venues", "recommend_users",
                "recommend_groups", "calculate_user_similarity",
                "analyze_group_chat"}

(* faulty variant: the call logs a VIEW of the venue it ranks first *)
RecommendVenuesLogging(ids, limits) ==
    /\ ret.op \notin ReadOnlyOps
    /\ \E user_id \in ids, limit \in limits :
          LET value == recommend_venues(user_id, limit)
          IN  /\ ret' = [op |-> "recommend_venues", user_id |-> user_id,
                         limit |-> limit, raised |-> IsRaised(value),
                         value |-> value]
              /\ interactions' =
                    IF IsRaised(value) \/ value.recommendations = <<>>
                    THEN interactions
                    ELSE Append(interactions,
                                [user_id |-> user_id,
                                 venue_id |-> value.recommendations[1].venue_id,
                                 interaction_type |-> VIEW,
                                 duration_seconds |-> 0])
    /\ UNCHANGED <<users, venues, bookings, groups, connections,
                   flask_bookings, engine, trainer>>

(* build_user_profile(user_id) *)
BuildUserProfile(ids) ==
    /\ ret.op \notin ReadOnlyOps
    /\ \E user_id \in ids :
          LET value == build_user_profile(user_id)
          IN  ret' = [op |-> "build_user_profile", user_id |-> user_id,
                      raised |-> IsRaised(value), value |-> value]
    /\ UNCHANGED <<db, engine, trainer>>

(* recommend_venues(user_id, limit) *)
RecommendVenues(ids, limits) ==
    /\ ret.op \notin ReadOnlyOps
    /\ \E user_id \in ids, limit \in limits :
          LET value == recommend_venues(user_id, limit)
          IN  ret' = [op |-> "recommend_venues", user_id |-> user_id,
                      limit |-> limit, raised |-> IsRaised(value),
                      value |-> value]
    /\ UNCHANGED <<db, engine, trainer>>

(* recommend_users(user_id, limit) *)
RecommendUsers ==
    /\ ret.op \notin ReadOnlyOps
    /\ \E user_id \in Range(UserIdTable), limit \in 0..MaxLimit :
          LET raised == recommend_users_raised(user_id)
          IN  ret' = [op |-> "recommend_users", user_id |-> user_id,
                      limit |-> limit, raised |-> raised # "",
                      value |-> IF raised # "" THEN Raise(raised)
                                ELSE recommend_users(user_id, limit)]
    /\ UNCHANGED <<db, engine, trainer>>

(* recommend_groups(user_id, limit) *)
RecommendGroups ==
    /\ ret.op \notin ReadOnlyOps
    /\ \E user_id \in Range(UserIdTable), limit \in 0..MaxLimit :
          LET raised == recommend_groups_raised(user_id)
          IN  ret' = [op |-> "recommend_groups", user_id |-> user_id,
                      limit |-> limit, raised |-> raised # "",
                      value |-> IF raised # "" THEN Raise(raised)
                                ELSE recommend_groups(user_id, limit)]
    /\ UNCHANGED <<db, engine, trainer>>

(* calculate_user_similarity(user_id_1, user_id_2) of the Flask engine *)
CalculateUserSimilarity ==
    /\ ret.op \notin ReadOnlyOps
    /\ \E user_id_1, user_id_2 \in Range(UserIdTable) :
          ret' = [op |-> "calculate_user_similarity",
                  user_id_1 |-> user_id_1, user_id_2 |-> user_id_2,
                  raised |-> FALSE,
                  value |-> calculate_user_similarity(user_id_1, user_id_2)]
    /\ UNCHANGED <<db, engine, trainer>>

(* train_ranker_from_interactions(min_samples), up to the gate: it returns
   when there is no user or there are too few samples, else it goes on with
   X, y *)
TrainStart ==
    /\ pc = "idle"
    /\ \E ms \in 1..MaxMinSamples :
          /\ min_samples' = ms
          /\ IF get_all_user_ids = {}
                \/ NotEnoughSamples(Cardinality(GatherSamples), ms)
             THEN /\ pc' = "idle"
                  /\ X' = {}
                  /\ ret' = [op |-> "train_ranker_from_interactions",
                             raised |-> FALSE, trained |-> FALSE]
             ELSE /\ pc' = "scaler_fit"
                  /\ X' = GatherSamples
                  /\ ret' = ret
    /\ UNCHANGED <<db, engine>>

(* self.scaler.fit(X): the engine's scaler object is refit in place *)
TrainFitScaler ==
    /\ pc = "scaler_fit"
    /\ scaler' = [fitted |-> TRUE,
                  data |-> {[user_id |-> r.user_id, venue_id |-> r.venue_id,
                             feats |-> r.feats] : r \in X}]
    /\ pc' = "model_fit"
    /\ UNCHANGED <<db, rank_model, training_samples, X, min_samples, ret>>

(* rf.fit(X_scaled, y); self.rank_model = rf *)
TrainSetModel ==
    /\ pc = "model_fit"
    /\ rank_model' = [loaded |-> TRUE, data |-> X]
    /\ pc' = "set_samples"
    /\ UNCHANGED <<db, scaler, training_samples, X, min_samples, ret>>

(* self.training_samples = len(X), and the call returns *)
TrainSetSamples ==
    /\ pc = "set_samples"
    /\ training_samples' = [loaded |-> TRUE, n |-> Cardinality(X)]
    /\ pc' = "idle"
    /\ X' = {}
    /\ ret' = [op |-> "train_ranker_from_interactions",
               raised |-> FALSE, trained |-> TRUE]
    /\ UNCHANGED <<db, scaler, rank_model, min_samples>>

(* analyze_group_chat(group_messages, user_id), the answer of the model
   being any of LLMAnswers when the agent has a model *)
AnalyzeGroupChat ==
    /\ ret.op \notin ReadOnlyOps
    /\ \E group_messages \in ChatPool, user_id \in {"user_000", "user_003"},
          llm \in {NoModel} \cup LLMAnswers :
          LET value == analyze_group_chat(group_messages, user_id, llm)
          IN  ret' = [op |-> "analyze_group_chat", user_id |-> user_id,
                      group_messages |-> group_messages,
                      raised |-> IsRaised(value), value |-> value]
    /\ UNCHANGED <<db, engine, trainer>>

(* recommend_people(user_id, top_n) of the Flask engine: the connections it
   saves and the list it returns *)
RecommendPeople ==
    /\ \E user_id \in {"user_000", "user_003"}, top_n \in 0..MaxLimit :
          /\ connections' = recommend_people_saved(user_id, top_n)
          /\ ret' = [op |-> "recommend_people", user_id |-> user_id,
                     top_n |-> top_n, raised |-> FALSE,
                     value |-> recommend_people(user_id, top_n)]
    /\ UNCHANGED <<users, venues, interactions, bookings, groups,
                   flask_bookings, engine, trainer>>

(* auto_book_venue(user_id, venue_id, preferred_time, party_size) of the
   booking agent *)
AutoBookVenue ==
    /\ Len(flask_bookings) < MaxBookings
    /\ \E user_id \in {"user_000", "user_003"}, venue_id \in {"v4", "v9"},
          party_size \in PartySizes :
          LET value == auto_book_venue(user_id, venue_id, party_size)
          IN  /\ flask_bookings' =
                    IF value.status = "confirmed"
                    THEN Append(flask_bookings,
                                add_booking(user_id, venue_id, party_size,
                                            find_companions(user_id,
                                                            party_size - 1)))
                    ELSE flask_bookings
              /\ ret' = [op |-> "auto_book_venue", user_id |-> user_id,
                         venue_id |-> venue_id, party_size |-> party_size,
                         raised |-> FALSE, value |-> value]
    /\ UNCHANGED <<users, venues, interactions, bookings, groups,
                   connections, engine, trainer>>

Next ==
    \/ InsertInteraction(ServeInputs)
    \/ BuildUserProfile(Range(UserIdTable))
    \/ RecommendVenues(Range(UserIdTable), 0..MaxLimit)
    \/ RecommendUsers
    \/ RecommendGroups
    \/ CalculateUserSimilarity

Spec == Init /\ [][Next]_vars

(* the batch job and a serving session side by side *)
NextTrain ==
    \/ InsertInteraction(TrainInputs)
    \/ TrainStart
    \/ TrainFitScaler
    \/ TrainSetModel
    \/ TrainSetSamples
    \/ BuildUserProfile({"user_000"})
    \/ RecommendVenues({"user_000"}, {MaxLimit})

SpecTrain == InitTrain /\ [][NextTrain]_vars

(* the group chat page: the agent beside the interactions the app records *)
NextAgent ==
    \/ InsertInteraction(ServeInputs)
    \/ AnalyzeGroupChat

SpecAgent == InitAgent /\ [][NextAgent]_vars

(* the Flask backend: the people page and the booking agent *)
NextFlask ==
    \/ RecommendPeople
    \/ AutoBookVenue

SpecFlask == InitFlask /\ [][NextFlask]_vars

----------------------------------------------------------------------------
(* Properties of recommend_venues *)

IsVenueResult == ret.op = "recommend_venues" /\ ~ret.raised

InUnit(x) == 0 <= x /\ x <= Scale

(* the place of a venue in the catalog *)
CatalogIndex(venue_id) ==
    CHOOSE i \in 1..Len(venues) : venues[i].venue_id = venue_id

(* C1: every final_score recommend_venues returns, in the ranked list and in
   the breakdown, lies in [0,1]. *)
C1_FinalScoreInUnit ==
    IsVenueResult =>
        /\ \A i \in 1..Len(ret.value.recommendations) :
              InUnit(ret.value.recommendations[i].score)
        /\ \A i \in 1..Len(ret.value.details) :
              InUnit(ret.value.details[i].final_score)

(* C1 witness: a returned venue whose boosts and weighted components add up
   to more than 1 and whose final_score is 1. *)
C1_Witness ==
    /\ IsVenueResult
    /\ \E i \in 1..Len(ret.value.details) :
          LET d == ret.value.details[i]
          IN  /\ d.final_score = Scale
              /\ d.interest_boost + d.category_boost
                 + (d.rating_component * 25 + d.distance_component * 25
                    + d.trending_component * 20 + d.category_component * 25)
                   \div 100 > Scale

(* C2: recommend_venues(u, limit=k) returns at most k entries, sorted
   non-increasing by final_score. *)
C2_AtMostLimitSorted ==
    IsVenueResult =>
        LET recs == ret.value.recommendations
        IN  /\ Len(recs) <= ret.limit
            /\ \A i, j \in 1..Len(recs) :
                  i < j => recs[i].score >= recs[j].score

(* C2 witness: the catalog holds more venues than the limit, and the venue
   returned first is a later venue of the catalog that scores higher than
   the first one. *)
C2_Witness ==
    /\ IsVenueResult
    /\ ret.limit = 1
    /\ Len(venues) = 2
    /\ Len(ret.value.recommendations) = 1
    /\ ret.value.recommendations[1].venue_id = venues[2].venue_id
    /\ ret.value.recommendations[1].score
         > ScoreVenue(venues[1], build_user_profile(ret.user_id)).scored.score

(* C3: two returned venues of equal final_score stand in the order they
   have in the catalog. *)
C3_TiesInCatalogOrder ==
    IsVenueResult =>
        LET recs == ret.value.recommendations
        IN  \A i, j \in 1..Len(recs) :
              (i < j /\ recs[i].score = recs[j].score)
                 => CatalogIndex(recs[i].venue_id) < CatalogIndex(recs[j].venue_id)

(* C3 witness: two venues of equal score are returned, "v3" before "v2" as
   the catalog lists them. *)
C3_Witness ==
    /\ IsVenueResult
    /\ Len(ret.value.recommendations) = 2
    /\ ret.value.recommendations[1].score = ret.value.recommendations[2].score
    /\ ret.value.recommendations[1].venue_id = "v3"
    /\ ret.value.recommendations[2].venue_id = "v2"

----------------------------------------------------------------------------
(* Properties of train_ranker_from_interactions *)

TrainOp == "train_ranker_from_interactions"

(* the step in which a training call passes the gate with its X, y *)
PassesGate == pc = "idle" /\ pc' = "scaler_fit"

(* a step that is a recommend_venues call *)
VenueCallStep == ret.op \notin ReadOnlyOps /\ ret'.op = "recommend_venues"

(* C4: when a trained ranker is loaded (a training call has completed with
   enough samples), every breakdown entry of a later recommend_venues call
   carries an ml_score. *)
C4_MlScoreExposed ==
    [][(rank_model.loaded /\ training_samples.loaded /\ VenueCallStep)
          => \A i \in 1..Len(ret'.value.details) :
                "ml_score" \in DOMAIN ret'.value.details[i]]_vars

(* C5: a training call that gathers fewer than min_samples samples returns
   without raising and leaves the model, the scaler and the sample count as
   they were. *)
C5_TooFewSamplesNoOp ==
    [][(TrainStart /\ Cardinality(GatherSamples) < min_samples')
          => /\ UNCHANGED <<scaler, rank_model, training_samples>>
             /\ pc' = "idle"
             /\ ret'.op = TrainOp /\ ~ret'.raised /\ ~ret'.trained]_vars

(* C5 witness: with a model loaded by an earlier call, a call has returned
   from the gate on a dataset that is not empty and below min_samples. *)
C5_Witness ==
    /\ pc = "idle"
    /\ ret.op = TrainOp /\ ~ret.trained
    /\ rank_model.loaded
    /\ GatherSamples # {}
    /\ Cardinality(GatherSamples) < min_samples

(* C6: the model, its scaler and the sample count change in one step: no
   state shows the scaler fit on data the model was not fit on, or a model
   with another sample count. *)
C6_AtomicSwap ==
    /\ scaler.fitted = rank_model.loaded
    /\ training_samples.loaded = rank_model.loaded
    /\ rank_model.loaded =>
          /\ scaler.data = {[user_id |-> r.user_id, venue_id |-> r.venue_id,
                             feats |-> r.feats] : r \in rank_model.data}
          /\ training_samples.n = Cardinality(rank_model.data)

(* the labels of the logged interactions of a user with a venue *)
LabelsOf(u, v) ==
    {InteractionLabel(interactions[i])[1] :
        i \in {k \in 1..Len(interactions) :
                  /\ interactions[k].user_id = u
                  /\ interactions[k].venue_id = v
                  /\ InteractionLabel(interactions[k]) # <<>>}}

SetMax(S) == CHOOSE x \in S : \A y \in S : y <= x

(* C7: the label of a (user, venue) pair is the maximum label over the
   user's qualifying interactions with the venue, in whatever order they are
   read. *)
C7_MaxLabel ==
    [][PassesGate =>
          /\ \A s \in X' : s.label = SetMax(LabelsOf(s.user_id, s.venue_id))
          /\ \A u \in DOMAIN users :
                AggregateLabels(get_user_interactions(u), 1, <<>>)
                  = AggregateLabels(Reverse(get_user_interactions(u)), 1, <<>>)]_vars

(* C7 witness: a pair with a short VIEW logged before a VISIT, so that the
   VIEW is read last, has label 1.0 in X, y. *)
C7_Witness ==
    /\ pc = "scaler_fit"
    /\ \E s \in X : \E i, j \in 1..Len(interactions) :
          /\ i < j
          /\ interactions[i] = Row(s.user_id, s.venue_id, VIEW, 15)
          /\ interactions[j] = Row(s.user_id, s.venue_id, VISIT, 0)
          /\ s.label = Scale

(* the label table of the claim *)
ClaimedLabel(r) ==
    CASE r.interaction_type \in {LIKE, SAVE, VISIT} -> <<Scale>>
      [] r.interaction_type = VIEW /\ r.duration_seconds <= 15 -> <<0>>
      [] r.interaction_type = VIEW /\ r.duration_seconds >= 60 -> <<Scale>>
      [] OTHER -> <<>>

HasClaimedLabel(u, v) ==
    \E k \in 1..Len(interactions) :
        /\ interactions[k].user_id = u
        /\ interactions[k].venue_id = v
        /\ ClaimedLabel(interactions[k]) # <<>>

(* C8: an interaction is labelled by the table (LIKE, SAVE, VISIT 1.0; VIEW
   up to 15 s 0.0; VIEW from 60 s 1.0; anything else none); a pair of a user
   and a stored venue gives one sample when one of its interactions has a
   label, and none otherwise. *)
C8_LabelsAndSamples ==
    [][/\ \A k \in 1..Len(interactions) :
             InteractionLabel(interactions[k]) = ClaimedLabel(interactions[k])
       /\ PassesGate =>
             \A u \in DOMAIN users :
               \A v \in {interactions[k].venue_id : k \in 1..Len(interactions)}
                        \cup {venues[i].venue_id : i \in 1..Len(venues)} :
                 Cardinality({s \in X' : s.user_id = u /\ s.venue_id = v})
                   = IF HasClaimedLabel(u, v) /\ get_venue(v) # None
                     THEN 1 ELSE 0]_vars

(* C8 witness: X, y holds a sample while the log holds an interaction
   without a label whose pair has no sample. *)
C8_Witness ==
    /\ pc = "scaler_fit"
    /\ X # {}
    /\ \E k \in 1..Len(interactions) :
          /\ ClaimedLabel(interactions[k]) = <<>>
          /\ get_venue(interactions[k].venue_id) # None
          /\ ~\E s \in X : /\ s.user_id = interactions[k].user_id
                           /\ s.venue_id = interactions[k].venue_id

----------------------------------------------------------------------------
(* Properties of get_venue_features *)

RatingDistanceTrendingInUnit(f) == InUnit(f[1]) /\ InUnit(f[2]) /\ InUnit(f[3])

(* f[5] = capacity / 1000 *)
CapacityFeatureExact(f, venue) ==
    /\ f[5] % (Scale \div 1000) = 0
    /\ f[5] \div (Scale \div 1000) = venue.capacity

(* C9, as claimed: the rating, distance, trending and category features each
   lie in [0,1] and the capacity feature equals capacity/1000. *)
C9_FeaturesInUnit ==
    \A u \in DOMAIN users : \A i \in 1..Len(venues) :
        LET f == get_venue_features(venues[i], build_user_profile(u))
        IN  /\ RatingDistanceTrendingInUnit(f)
            /\ InUnit(f[4])
            /\ CapacityFeatureExact(f, venues[i])

(* C9, amended: the rating, distance and trending features each lie in [0,1]
   and the capacity feature equals capacity/1000; the category feature is
   not negative and has no upper bound: 0.05 when the profile has no score
   for the venue's category, else that score. *)
C9_FeaturesAmended ==
    /\ \A u \in DOMAIN users : \A i \in 1..Len(venues) :
          LET profile == build_user_profile(u)
              f == get_venue_features(venues[i], profile)
              category == venues[i].category
          IN  /\ RatingDistanceTrendingInUnit(f)
              /\ CapacityFeatureExact(f, venues[i])
              /\ f[4] >= 0
              /\ f[4] = IF category \in DOMAIN profile.category_scores
                        THEN profile.category_scores[category]
                        ELSE Scale \div 20
    /\ IsVenueResult =>
          \A i \in 1..Len(ret.value.details) :
              LET d == ret.value.details[i]
              IN  /\ InUnit(d.rating_component)
                  /\ InUnit(d.distance_component)
                  /\ InUnit(d.trending_component)
                  /\ d.category_component >= 0

(* C9 witness: a returned breakdown whose category component is above 1. *)
C9_Witness ==
    /\ IsVenueResult
    /\ \E i \in 1..Len(ret.value.details) :
          ret.value.details[i].category_component > Scale

----------------------------------------------------------------------------
(* Properties of the compatibility scores *)

IsUserResult == ret.op = "recommend_users" /\ ~ret.raised

(* C10: the score recommend_users(a) gives b is the score recommend_users(b)
   computes for a, and calculate_user_similarity(a, b) is
   calculate_user_similarity(b, a). *)
C10_CompatibilitySymmetric ==
    /\ IsUserResult =>
          \A k \in 1..Len(ret.value) :
              LET back == ScoredUsers(ret.value[k].user_id)
              IN  \A m \in 1..Len(back) :
                      back[m].user_id = ret.user_id
                         => back[m].score = ret.value[k].score
    /\ ret.op = "calculate_user_similarity" =>
          ret.value = calculate_user_similarity(ret.user_id_2, ret.user_id_1)

(* C10 witness: a returned user who shares some but not all interests, and a
   category, with the target, neither blocking the other, with a score
   strictly between 0 and 1. *)
C10_Witness ==
    /\ IsUserResult
    /\ \E k \in 1..Len(ret.value) :
          LET a == build_user_profile(ret.user_id)
              b == build_user_profile(ret.value[k].user_id)
              back == ScoredUsers(ret.value[k].user_id)
          IN  /\ \E m \in 1..Len(back) : back[m].user_id = ret.user_id
              /\ Range(a.interests) # Range(b.interests)
              /\ Range(a.interests) \cap Range(b.interests) # {}
              /\ DOMAIN a.category_scores \cap DOMAIN b.category_scores # {}
              /\ 0 < ret.value[k].score /\ ret.value[k].score < Scale

(* two stored users of equal interest sets and equal coordinates *)
AlikeUsers(a, b) ==
    /\ a \in DOMAIN users /\ b \in DOMAIN users
    /\ Range(users[a].interests) = Range(users[b].interests)
    /\ users[a].location = users[b].location

(* the engaged categories of a stored user *)
CategoriesOf(u) == DOMAIN build_user_profile(u).category_scores

IsSimilarityResult == ret.op = "calculate_user_similarity" /\ ~ret.raised

(* C11, as claimed: two users of identical interest sets and identical
   coordinates have compatibility exactly 1.0, in recommend_users and in
   calculate_user_similarity. *)
C11_AlikeUsersScoreOne ==
    /\ IsUserResult =>
          \A k \in 1..Len(ret.value) :
              AlikeUsers(ret.user_id, ret.value[k].user_id)
                 => ret.value[k].score = Scale
    /\ IsSimilarityResult =>
          (AlikeUsers(ret.user_id_1, ret.user_id_2) => ret.value = Scale)

(* C11, amended: for two users of identical interest sets that are not empty
   and identical coordinates, calculate_user_similarity is exactly 1.0 and
   the score of recommend_users is 0.65 + 0.35 * category_overlap: 1.0 when
   the two have the same engaged categories and at least one, 0.65 when
   they share none. *)
C11_AlikeUsersAmended ==
    /\ IsUserResult =>
          \A k \in 1..Len(ret.value) :
              LET a == ret.user_id
                  b == ret.value[k].user_id
                  both == Cardinality(CategoriesOf(a) \cap CategoriesOf(b))
                  any == Cardinality(CategoriesOf(a) \cup CategoriesOf(b))
              IN  (AlikeUsers(a, b) /\ users[a].interests # <<>>) =>
                    /\ ret.value[k].score * 100 * Max(any, 1)
                          = 65 * Scale * Max(any, 1) + 35 * Scale * both
                    /\ ret.value[k].score = Scale
                          <=> (both = any /\ any > 0)
    /\ IsSimilarityResult =>
          ((/\ AlikeUsers(ret.user_id_1, ret.user_id_2)
            /\ users[ret.user_id_1].interests # <<>>) => ret.value = Scale)

(* C11 witness: recommend_users returns, with score 1.0, a user of the
   target's interests and coordinates and engaged categories. *)
C11_Witness ==
    /\ IsUserResult
    /\ \E k \in 1..Len(ret.value) :
          /\ AlikeUsers(ret.user_id, ret.value[k].user_id)
          /\ users[ret.user_id].interests # <<>>
          /\ CategoriesOf(ret.user_id) # {}
          /\ ret.value[k].score = Scale

(* 40 times the interest_overlap term of a score recommend_users gave b for
   the target a *)
InterestTerm40(score, a, b) ==
    LET distance == calculate_distance(users[a].location, users[b].location)
        location_score == Max(0, Scale - distance * (Scale \div 20))
        both == Cardinality(CategoriesOf(a) \cap CategoriesOf(b))
        any == Cardinality(CategoriesOf(a) \cup CategoriesOf(b))
    IN  score * 100 - ((both * Scale) \div Max(any, 1)) * 35
        - location_score * 25

(* C12: when both users have no interests, the interest_overlap term of the
   compatibility score is 0.5, in recommend_users and in
   calculate_user_similarity. *)
C12_EmptyInterestsHalf ==
    /\ IsUserResult =>
          \A k \in 1..Len(ret.value) :
              (/\ users[ret.user_id].interests = <<>>
               /\ users[ret.value[k].user_id].interests = <<>>)
                 => InterestTerm40(ret.value[k].score, ret.user_id,
                                   ret.value[k].user_id) = 40 * (Scale \div 2)
    /\ IsSimilarityResult =>
          \A a \in {ret.user_id_1} \cap DOMAIN users :
            \A b \in {ret.user_id_2} \cap DOMAIN users :
              (users[a].interests = <<>> /\ users[b].interests = <<>>) =>
                 LET distance ==
                        calculate_distance(users[a].location, users[b].location)
                     location_score == Max(0, Scale - distance * (Scale \div 10))
                 IN  ret.value = ((Scale \div 2) * 6 + location_score * 4) \div 10

----------------------------------------------------------------------------
(* Properties of the entry points on missing users and missing data *)

ProfileOps == {"build_user_profile", "recommend_venues", "recommend_users",
               "recommend_groups"}

IsProfileResult == ret.op = "build_user_profile" /\ ~ret.raised

(* C13: a call of build_user_profile, of an entry point built on it or of
   calculate_user_similarity with a user_id that is not stored ends with an
   error signalled to the caller, not with a returned value. *)
C13_UnknownUserSignalled ==
    /\ (ret.op \in ProfileOps /\ ret.user_id \notin DOMAIN users) => ret.raised
    /\ (/\ ret.op = "calculate_user_similarity"
        /\ (ret.user_id_1 \notin DOMAIN users
            \/ ret.user_id_2 \notin DOMAIN users)) => ret.raised

(* C14: for a stored user no call of build_user_profile, recommend_venues,
   recommend_users or recommend_groups raises; without interactions the
   profile has no category score and average view time 0; on an empty
   catalog recommend_venues returns empty lists. *)
C14_NoDataNeverRaises ==
    /\ (ret.op \in ProfileOps /\ ret.user_id \in DOMAIN users) => ~ret.raised
    /\ (/\ ret.op = "build_user_profile"
        /\ ret.user_id \in DOMAIN users
        /\ get_user_interactions(ret.user_id) = <<>>) =>
          /\ ~ret.raised
          /\ DOMAIN ret.value.category_scores = {}
          /\ ret.value.avg_view_time = 0
    /\ (/\ ret.op = "recommend_venues"
        /\ ret.user_id \in DOMAIN users
        /\ venues = <<>>) =>
          /\ ~ret.raised
          /\ ret.value.recommendations = <<>>
          /\ ret.value.details = <<>>

(* C14 witness: recommend_venues has returned the empty list on an empty
   catalog to a user without interests and without interactions. *)
C14_Witness ==
    /\ ret.op = "recommend_venues" /\ ~ret.raised
    /\ ret.user_id \in DOMAIN users
    /\ users[ret.user_id].interests = <<>>
    /\ get_user_interactions(ret.user_id) = <<>>
    /\ venues = <<>>
    /\ ret.limit > 0
    /\ ret.value.recommendations = <<>>

----------------------------------------------------------------------------
(* Scenarios of recommend_venues *)

(* 0.25*rating/5 + 0.25*distance_score + 0.20*trending + 0.25*(0.5*0.1)
   + 0.05*capacity/1000, clamped to 1.0, in hundredths of Scale *)
ColdStartScore100(venue, user) ==
    LET distance == calculate_distance(user.location, venue.location)
        distance_score == Max(0, Scale - distance * (Scale \div 10))
    IN  Min(100 * Scale,
            25 * venue.rating * (Scale \div 50)
            + 25 * distance_score
            + 20 * venue.trending_score * (Scale \div 10)
            + 25 * (Scale \div 20)
            + 5 * venue.capacity * (Scale \div 1000))

IsColdStartResult ==
    /\ IsVenueResult
    /\ users[ret.user_id].interests = <<>>
    /\ get_user_interactions(ret.user_id) = <<>>

(* C15: for a user without interactions and without interests every venue's
   interest_boost and category_boost are 0, its final_score is the cold-start
   sum clamped to 1.0, and the venues are returned in non-increasing order
   of it. *)
C15_ColdStartRanking ==
    IsColdStartResult =>
        LET recs == ret.value.recommendations
            details == ret.value.details
        IN  /\ \A i \in 1..Len(details) :
                  /\ details[i].interest_boost = 0
                  /\ details[i].category_boost = 0
                  /\ details[i].final_score = recs[i].score
            /\ \A i \in 1..Len(recs) :
                  100 * recs[i].score
                    = ColdStartScore100(get_venue(recs[i].venue_id),
                                        users[ret.user_id])
            /\ \A i, j \in 1..Len(recs) :
                  i < j =>
                    ColdStartScore100(get_venue(recs[i].venue_id),
                                      users[ret.user_id])
                      >= ColdStartScore100(get_venue(recs[j].venue_id),
                                           users[ret.user_id])

(* C15 witness: a cold-start call has returned two venues of different
   scores, the second of the catalog first. *)
C15_Witness ==
    /\ IsColdStartResult
    /\ Len(ret.value.recommendations) = 2
    /\ ret.value.recommendations[1].venue_id = venues[2].venue_id
    /\ ret.value.recommendations[1].score > ret.value.recommendations[2].score
    /\ ret.value.recommendations[2].score > 0

(* the interests of a stored user that occur in the name or the description
   of a venue, counted as the list holds them *)
MatchingInterests(u, venue) ==
    Cardinality({k \in 1..Len(users[u].interests) :
        \/ str_in(lower(users[u].interests[k]), lower(venue.name))
        \/ str_in(lower(users[u].interests[k]), lower(venue.description))})

(* the venues catalog[a] and catalog[b] are those of the scenario for the
   user u: rating 5.0, trending 0.5, capacity 100, a category u has no score
   for, alike but for their ids and places, a at 0 km and b at 10 km *)
DistanceScenario(a, b, u) ==
    /\ venues[a].rating = 50 /\ venues[a].trending_score = 5
    /\ venues[a].capacity = 100
    /\ venues[a].category \notin CategoriesOf(u)
    /\ [venues[b] EXCEPT !.venue_id = venues[a].venue_id,
                         !.location = venues[a].location] = venues[a]
    /\ venues[a].venue_id # venues[b].venue_id
    /\ venues[a].location = users[u].location
    /\ venues[b].location - users[u].location \in {10, 0 - 10}

(* the place of a venue in a returned list, 0 when it is not in it *)
PlaceIn(recs, venue_id) ==
    IF \E i \in 1..Len(recs) : recs[i].venue_id = venue_id
    THEN CHOOSE i \in 1..Len(recs) : recs[i].venue_id = venue_id
    ELSE 0

(* in the list, a stands above b; when only one of them is in it, it is a *)
RanksAbove(recs, a, b) ==
    PlaceIn(recs, b) # 0 =>
        (PlaceIn(recs, a) # 0 /\ PlaceIn(recs, a) < PlaceIn(recs, b))

(* C16, as claimed: in the distance scenario A's distance feature is 1.0,
   B's is 0.0, and recommend_venues ranks A above B whatever their order in
   the catalog. *)
C16_NearRanksAboveFar ==
    (IsVenueResult /\ ret.limit > 0) =>
        \A a, b \in 1..Len(venues) :
            DistanceScenario(a, b, ret.user_id) =>
              LET profile == build_user_profile(ret.user_id)
              IN  /\ get_venue_features(venues[a], profile)[2] = Scale
                  /\ get_venue_features(venues[b], profile)[2] = 0
                  /\ RanksAbove(ret.value.recommendations,
                                venues[a].venue_id, venues[b].venue_id)

(* C16, amended: in the distance scenario A's distance feature is 1.0 and
   B's is 0.0, and A's final_score is never below B's.  When
   fewer than five of the user's interests occur in the venues' name or
   description, recommend_venues ranks A above B whatever their order in the
   catalog; from five on both scores are clamped to 1.0 and the two are
   ranked in their catalog order. *)
C16_NearRanksAboveFarAmended ==
    (IsVenueResult /\ ret.limit > 0) =>
        \A a, b \in 1..Len(venues) :
            DistanceScenario(a, b, ret.user_id) =>
              LET profile == build_user_profile(ret.user_id)
                  recs == ret.value.recommendations
                  score_a == ScoreVenue(venues[a], profile).scored.score
                  score_b == ScoreVenue(venues[b], profile).scored.score
              IN  /\ get_venue_features(venues[a], profile)[2] = Scale
                  /\ get_venue_features(venues[b], profile)[2] = 0
                  /\ score_a >= score_b
                  /\ IF MatchingInterests(ret.user_id, venues[a]) < 5
                     THEN /\ score_a > score_b
                          /\ RanksAbove(recs, venues[a].venue_id,
                                        venues[b].venue_id)
                     ELSE /\ score_a = Scale /\ score_b = Scale
                          /\ IF a < b
                             THEN RanksAbove(recs, venues[a].venue_id,
                                             venues[b].venue_id)
                             ELSE RanksAbove(recs, venues[b].venue_id,
                                             venues[a].venue_id)

(* C16 witness: with B before A in the catalog, a user at A's place with an
   interest that occurs in the venues' name gets A before B. *)
C16_Witness ==
    /\ IsVenueResult
    /\ Len(ret.value.recommendations) = 2
    /\ \E a, b \in 1..Len(venues) :
          /\ DistanceScenario(a, b, ret.user_id)
          /\ b < a
          /\ MatchingInterests(ret.user_id, venues[a]) \in 1..4
          /\ ret.value.recommendations[1].venue_id = venues[a].venue_id
          /\ ret.value.recommendations[2].venue_id = venues[b].venue_id

(* C17: a call of recommend_venues leaves the stored users, venues,
   interactions, bookings and groups and the engine's scaler, model and
   sample count as they were. *)
C17_RecommendVenuesOnlyReads ==
    [][VenueCallStep =>
          UNCHANGED <<users, venues, interactions, bookings, groups,
                      scaler, rank_model, training_samples>>]_vars

(* C17 witness: recommend_venues has returned venues while a trained model
   is loaded and the log holds interactions. *)
C17_Witness ==
    /\ IsVenueResult
    /\ ret.value.recommendations # <<>>
    /\ rank_model.loaded /\ training_samples.loaded
    /\ interactions # <<>>
    /\ bookings # <<>> /\ groups # <<>>

----------------------------------------------------------------------------
(* Properties of build_user_profile *)

(* the rows of the log, by their places, that are of the user u *)
RowsOf(u) == {k \in 1..Len(interactions) : interactions[k].user_id = u}

(* those of them of one type with a stored venue of the category c *)
Counted(u, c, type) ==
    {k \in RowsOf(u) :
        /\ interactions[k].interaction_type = type
        /\ get_venue(interactions[k].venue_id) # None
        /\ get_venue(interactions[k].venue_id).category = c}

(* the categories in which u has a VIEW, LIKE, SAVE or VISIT of a stored
   venue *)
EngagedCategories(u) ==
    {c \in VenueCategory :
        \E type \in {VIEW, LIKE, SAVE, VISIT} : Counted(u, c, type) # {}}

(* the VIEW rows of u, and those of them with a stored venue *)
ViewsOf(u) == {k \in RowsOf(u) : interactions[k].interaction_type = VIEW}
StoredViewsOf(u) ==
    {k \in ViewsOf(u) : get_venue(interactions[k].venue_id) # None}

RECURSIVE TotalDuration(_)
TotalDuration(rows) ==
    IF rows = {} THEN 0
    ELSE LET k == CHOOSE x \in rows : TRUE
         IN  interactions[k].duration_seconds + TotalDuration(rows \ {k})

(* 10 * (0.3*views + 1.0*likes + 1.5*saves + 2.0*visits) from the log *)
WeightedCount10(u, c) ==
    3 * Cardinality(Counted(u, c, VIEW)) + 10 * Cardinality(Counted(u, c, LIKE))
    + 15 * Cardinality(Counted(u, c, SAVE))
    + 20 * Cardinality(Counted(u, c, VISIT))

(* the profile of a stored user as the log defines it, whatever the order
   of its rows *)
ProfileFromLog(u) ==
    [user_id |-> u,
     location |-> users[u].location,
     interests |-> users[u].interests,
     category_scores |->
         [c \in EngagedCategories(u) |-> WeightedCount10(u, c) * (Scale \div 10)],
     total_engagement |-> Cardinality(RowsOf(u)),
     avg_view_time |-> (TotalDuration(StoredViewsOf(u)) * Scale)
                       \div Max(1, Cardinality(ViewsOf(u)))]

(* C18: whatever insertions, profile, recommendation and training calls
   came before, build_user_profile(u) returns the profile the rows of u now
   in the log define; it does not depend on earlier calls or on the order
   of the rows. *)
C18_ProfileFromCurrentLog ==
    IsProfileResult => ret.value = ProfileFromLog(ret.user_id)

(* C18 witness: with a model trained on an earlier log, build_user_profile
   has returned a profile with the scores of two categories, from rows
   logged before and after the training. *)
C18_Witness ==
    /\ IsProfileResult
    /\ rank_model.loaded
    /\ Cardinality(rank_model.data) < Cardinality(GatherSamples)
    /\ Cardinality(DOMAIN ret.value.category_scores) = 2

(* C19: every category of a profile has the score 0.3*views + 1.0*likes
   + 1.5*saves + 2.0*visits over the user's interactions with venues of the
   category; a category is in the profile only through such an interaction,
   never through a COMMENT or a CLICK; no score is negative. *)
C19_CategoryScores ==
    IsProfileResult =>
        LET scores == ret.value.category_scores
        IN  /\ DOMAIN scores = EngagedCategories(ret.user_id)
            /\ \A c \in DOMAIN scores :
                  /\ 10 * scores[c] = WeightedCount10(ret.user_id, c) * Scale
                  /\ scores[c] >= 0

(* C19 witness: the user has a COMMENT or a CLICK in one category and a
   LIKE or SAVE in another; the profile holds the second only. *)
C19_Witness ==
    /\ IsProfileResult
    /\ Cardinality(DOMAIN ret.value.category_scores) = 1
    /\ \E j, k \in RowsOf(ret.user_id) :
          /\ interactions[j].interaction_type \in {COMMENT, CLICK}
          /\ get_venue(interactions[j].venue_id) # None
          /\ get_venue(interactions[j].venue_id).category
                \notin DOMAIN ret.value.category_scores
          /\ interactions[k].interaction_type \in {LIKE, SAVE}
          /\ get_venue(interactions[k].venue_id) # None

(* C20: the average view time is the total duration of the counted VIEW
   interactions divided by max(1, their number), the same interactions above
   and below the line: all VIEW rows of the user, or those with a stored
   venue. *)
C20_AvgOverSameViews ==
    IsProfileResult =>
        \E counted \in {ViewsOf(ret.user_id), StoredViewsOf(ret.user_id)} :
            ret.value.avg_view_time * Max(1, Cardinality(counted))
              = TotalDuration(counted) * Scale

----------------------------------------------------------------------------
(* Claims about recommend_users and recommend_groups: who is returned *)

(* the ids a result of recommend_users or recommend_groups lists *)
ReturnedUsers == {ret.value[k].user_id : k \in 1..Len(ret.value)}

(* a list of scored entries is in non-increasing order of score *)
NonIncreasing(list) ==
    \A i, j \in 1..Len(list) : i < j => list[i].score >= list[j].score

(* C21: recommend_users(u, limit) returns neither u nor a user of u's
   blocked_users; it returns at most limit entries, in non-increasing order
   of score, each score in [0,1]. *)
C21_UsersResultShape ==
    IsUserResult =>
        /\ ret.user_id \notin ReturnedUsers
        /\ ReturnedUsers \cap users[ret.user_id].blocked_users = {}
        /\ Len(ret.value) <= ret.limit
        /\ NonIncreasing(ret.value)
        /\ \A k \in 1..Len(ret.value) : InUnit(ret.value[k].score)

(* C21 witness: the user blocks a stored user of the run of ids, and the
   call returns another user with room left under the limit. *)
C21_Witness ==
    /\ IsUserResult
    /\ \E b \in users[ret.user_id].blocked_users :
          b \in DOMAIN users /\ b \in Range(UserIdTable)
    /\ Len(ret.value) >= 1
    /\ Len(ret.value) < ret.limit

(* the ids user_000, user_001, ... up to the first one that is not stored *)
ContiguousRun ==
    {UserIdFormat(i) : i \in {n \in 0..(Len(UserIdTable) - 1) :
        \A j \in 0..n : UserIdFormat(j) \in DOMAIN users}}

(* C27: recommend_users returns users of the contiguous run user_000,
   user_001, ... only: a stored user after a missing id, or with an id of
   another format, is not returned. *)
C27_OnlyContiguousRun ==
    IsUserResult => ReturnedUsers \subseteq ContiguousRun

(* C27 witness: a stored user that is neither the caller nor blocked is left
   out although the limit leaves room. *)
C27_Witness ==
    /\ IsUserResult
    /\ Len(ret.value) < ret.limit
    /\ \E u \in DOMAIN users \cap Range(UserIdTable) :
          /\ u # ret.user_id
          /\ u \notin users[ret.user_id].blocked_users
          /\ u \notin ReturnedUsers
    /\ \E u \in DOMAIN users : u \notin Range(UserIdTable)

IsGroupResult == ret.op = "recommend_groups" /\ ~ret.raised

(* the stored group with this id *)
GroupOf(group_id) == CHOOSE g \in Range(groups) : g.group_id = group_id

(* the share of the preferences of g among the categories u engaged with,
   0.5 for a group without preferences *)
PreferenceShare(u, g) ==
    IF g.venue_preferences = <<>> THEN Scale \div 2
    ELSE (Cardinality(Range(g.venue_preferences) \cap EngagedCategories(u))
          * Scale) \div Len(g.venue_preferences)

(* C22: the score of a group recommend_groups returns is
   0.6 * preference_overlap + 0.4 * min(1, member_count / 10), where
   preference_overlap is the share of the group's venue preferences among
   the categories the user engaged with, 0.5 for a group without
   preferences; it lies in [0,1], and the list is in non-increasing order
   of score and has at most limit entries. *)
C22_GroupScoreFormula ==
    IsGroupResult =>
        /\ \A k \in 1..Len(ret.value) :
              LET g == GroupOf(ret.value[k].group_id)
              IN  /\ 10 * ret.value[k].score
                        = 6 * PreferenceShare(ret.user_id, g)
                          + 4 * Min(Scale, Len(g.members) * (Scale \div 10))
                  /\ InUnit(ret.value[k].score)
        /\ NonIncreasing(ret.value)
        /\ Len(ret.value) <= ret.limit

(* C22 witness: two groups are returned with different scores, one whose
   preferences the user engaged with and one without preferences. *)
C22_Witness ==
    /\ IsGroupResult
    /\ Len(ret.value) = 2
    /\ ret.value[1].score > ret.value[2].score
    /\ Range(GroupOf(ret.value[1].group_id).venue_preferences)
          \cap EngagedCategories(ret.user_id) # {}
    /\ GroupOf(ret.value[2].group_id).venue_preferences = <<>>

(* C30: recommend_groups(u) returns no group whose member list contains u,
   and every group it returns is one get_user_groups(u) selects: u created
   it, or the text of its member list holds the id of u. *)
C30_NoGroupOfMember ==
    IsGroupResult =>
        \A k \in 1..Len(ret.value) :
            LET g == GroupOf(ret.value[k].group_id)
            IN  /\ ret.user_id \notin Range(g.members)
                /\ \/ g.creator_id = ret.user_id
                   \/ \E m \in Range(g.members) :
                         str_in(IdText(ret.user_id), IdText(m))

(* C30 witness: a group the user did not create is returned, its member
   list holding the id of the user inside a longer id, while a stored group
   has the user among its members. *)
C30_Witness ==
    /\ IsGroupResult
    /\ \E k \in 1..Len(ret.value) :
          GroupOf(ret.value[k].group_id).creator_id # ret.user_id
    /\ \E g \in Range(groups) : ret.user_id \in Range(g.members)

----------------------------------------------------------------------------
(* Claims about the details recommend_venues returns *)

(* C23: the details are sorted as the ranked list is: the i-th entry names
   the i-th returned venue and carries its final_score, also when scores
   are equal. *)
C23_DetailsAligned ==
    IsVenueResult =>
        /\ Len(ret.value.details) = Len(ret.value.recommendations)
        /\ \A i \in 1..Len(ret.value.recommendations) :
              /\ ret.value.details[i].venue
                    = get_venue(ret.value.recommendations[i].venue_id).name
              /\ ret.value.details[i].final_score
                    = ret.value.recommendations[i].score

(* C23 witness: two venues of different names are returned with the same
   score. *)
C23_Witness ==
    /\ IsVenueResult
    /\ Len(ret.value.recommendations) = 2
    /\ ret.value.recommendations[1].score = ret.value.recommendations[2].score
    /\ ret.value.details[1].venue # ret.value.details[2].venue

(* C25: the interest_boost of a venue is 0.15 times the number of the
   user's interests that occur, whatever their case, in its name or its
   description, with no cap of its own; its category_boost is 0.1 times the
   user's score for its category, 0 without such a score. *)
C25_BoostsFromInterestsAndCategory ==
    IsVenueResult =>
        \A i \in 1..Len(ret.value.details) :
            LET v == get_venue(ret.value.recommendations[i].venue_id)
                d == ret.value.details[i]
            IN  /\ 100 * d.interest_boost
                      = 15 * Scale * MatchingInterests(ret.user_id, v)
                /\ 100 * d.category_boost
                      = IF v.category \in EngagedCategories(ret.user_id)
                        THEN WeightedCount10(ret.user_id, v.category) * Scale
                        ELSE 0

(* C25 witness: five interests match, one of them in another case than the
   name; the boost 0.75 enters the sum whole, with a category boost, and
   the final score is clamped to 1. *)
C25_Witness ==
    /\ IsVenueResult
    /\ \E i \in 1..Len(ret.value.details) :
          LET v == get_venue(ret.value.recommendations[i].venue_id)
              d == ret.value.details[i]
          IN  /\ 100 * d.interest_boost = 75 * Scale
              /\ d.category_boost > 0
              /\ d.final_score = Scale
              /\ \E k \in 1..Len(users[ret.user_id].interests) :
                    /\ ~str_in(users[ret.user_id].interests[k], v.name)
                    /\ str_in(lower(users[ret.user_id].interests[k]),
                              lower(v.name))

----------------------------------------------------------------------------
(* Claims about the trained ranker and the recommendations *)

(* the score of a venue for a profile, from the features and the boosts *)
ScoreFromData(venue, profile) ==
    FinalScore(BaseScore(get_venue_features(venue, profile)),
               InterestBoost(profile.interests, venue),
               CategoryBoost(profile.category_scores, venue))

(* the ranked list of a profile over the catalog *)
RankingOf(profile, limit) ==
    LET n == Len(venues)
        scores == [i \in 1..n |-> ScoreFromData(venues[i], profile)]
        order == sort_reverse(scores)
    IN  Slice([p \in 1..n |-> [venue_id |-> venues[order[p]].venue_id,
                               score |-> scores[order[p]]]], limit)

(* the ranked list as the users, the catalog and the log alone define it *)
RankingFromData(user_id, limit) ==
    RankingOf(build_user_profile(user_id), limit)

(* C26: what recommend_venues returns is the same whether or not
   train_ranker_from_interactions has trained a model: the ranked list is
   the one the users, the catalog and the log define, whatever the
   rank_model and the scaler hold. *)
C26_RankerNeverEntersScore ==
    IsVenueResult =>
        ret.value.recommendations = RankingFromData(ret.user_id, ret.limit)

(* C26 witness: recommend_venues returns venues while a trained model is
   set and the scaler is fitted. *)
C26_Witness ==
    /\ IsVenueResult
    /\ rank_model.loaded
    /\ scaler.fitted
    /\ Len(ret.value.recommendations) >= 2

----------------------------------------------------------------------------
(* Claims about the group chat analysis *)

IsChatResult == ret.op = "analyze_group_chat" /\ ~ret.raised

(* C24: analyze_group_chat called with a non-empty message list returns at
   least 3 recommendations when the catalog has at least 3 venues: the
   filters never leave fewer than 3. *)
C24_AtLeastThree ==
    (IsChatResult /\ ret.group_messages # <<>> /\ Len(venues) >= 3)
        => Len(ret.value.recommendations) >= 3

----------------------------------------------------------------------------
(* Claims about the Flask backend *)

(* the ids a result of recommend_people lists *)
PeopleOf(result) == {result.value[k].id : k \in 1..Len(result.value)}

(* C28: after recommend_people(u, top_n) the connection rows the call
   persisted are those of the returned users: every returned user has a row
   with u, and every row the call added is for a returned user. *)
C28_SavedAreReturned ==
    [][ret'.op = "recommend_people" =>
          /\ \A id \in PeopleOf(ret') :
                \E r \in connections' :
                    r.user_id_1 = ret'.user_id /\ r.user_id_2 = id
          /\ \A r \in connections' \ connections :
                r.user_id_1 = ret'.user_id /\ r.user_id_2 \in PeopleOf(ret')]_vars

(* C29: auto_book_venue returns 'failed' and adds no booking when the user
   or the venue is not stored; 'pending' and no booking when party_size
   exceeds the capacity of the venue; otherwise it adds exactly one booking
   and returns 'confirmed' with the id of that booking. *)
C29_BookingOutcome ==
    [][ret'.op = "auto_book_venue" =>
          LET r == ret'
          IN  IF r.user_id \notin DOMAIN users
                 \/ \A i \in 1..Len(venues) : venues[i].venue_id # r.venue_id
              THEN /\ r.value.status = "failed"
                   /\ flask_bookings' = flask_bookings
              ELSE IF \E i \in 1..Len(venues) :
                         /\ venues[i].venue_id = r.venue_id
                         /\ r.party_size > venues[i].capacity
              THEN /\ r.value.status = "pending"
                   /\ flask_bookings' = flask_bookings
              ELSE /\ r.value.status = "confirmed"
                   /\ Len(flask_bookings') = Len(flask_bookings) + 1
                   /\ SubSeq(flask_bookings', 1, Len(flask_bookings))
                         = flask_bookings
                   /\ LET row == flask_bookings'[Len(flask_bookings')]
                      IN  /\ row.booking_id = r.value.booking_id
                          /\ row.user_id = r.user_id
                          /\ row.venue_id = r.venue_id
                          /\ row.party_size = r.party_size
                          /\ \A k \in 1..Len(flask_bookings) :
                                flask_bookings[k].booking_id # row.booking_id]_vars

(* C29 witness: a party of exactly the capacity is confirmed as the second
   booking, and the last row carries the returned id. *)
C29_Witness ==
    /\ ret.op = "auto_book_venue"
    /\ ret.value.status = "confirmed"
    /\ ret.party_size = get_venue(ret.venue_id).capacity
    /\ Len(flask_bookings) = 2
    /\ flask_bookings[2].booking_id = ret.value.booking_id
    /\ flask_bookings[2].companion_ids # <<>>

====
